---- MODULE Spec2Model ----
(***************************************************************************)
(* Model of automate/__main__.py: the command dispatcher run_command, the  *)
(* four procedures it selects, and the leaf utilities replace_text_once    *)
(* and search_all_files.                                                   *)
(*                                                                         *)
(* Text is a sequence of characters (or of literal fragments, where the    *)
(* fragments are cut so that one literal being a substring of another is   *)
(* kept: "# tokio_with_wasm" is <<"# ", "tokio_with_wasm">>).              *)
(***************************************************************************)
EXTENDS Integers, Sequences, FiniteSets, TLC

\* ------------------------------------------------------------------ bounds
\* longest file content drawn for replace_text_once
MaxLen == 4
\* longest literal (before, after) drawn for replace_text_once
MaxLit == 2
\* most entries (files and subdirectories) of a tree given to search_all_files
MaxEntries == 4
\* most invocations of the program in one behaviour
MaxRuns == 2

\* COMMAND_ARG = 1: the index of the command in argv (0-based)
COMMAND_ARG == 1

\* the characters of the drawn contents and of before
Alphabet == {"a", "b"}
\* the characters of after: those of the contents, and one foreign to them
AfterAlphabet == Alphabet \cup {"c"}

\* ------------------------------------------------------------------ state
VARIABLES
    tfile,      \* replace_text_once: the content of the file at file_path
    tbefore,    \* replace_text_once: the argument before
    tafter,     \* replace_text_once: the argument after
    torig,      \* the content the file had when replace_text_once was called
    tpc         \* "ready" before the call, "done" after it returned

textVars == <<tfile, tbefore, tafter, torig, tpc>>

VARIABLES
    tree,       \* search_all_files: the directory tree under dir, path |-> kind
    stack,      \* os.walk: the directories still to be scanned
    all_files,  \* search_all_files: the list being built
    wpc         \* "setup" while the tree is laid out, "walk", then "done"

walkVars == <<tree, stack, all_files, wpc>>

VARIABLES
    argv,       \* sys.argv of the running process (argv[1] is the program)
    pc,         \* "idle", "run_command", "running" (inside a procedure), "exit"
    proc,       \* the procedure run_command selected, "none" when it selected none
    ip,         \* the position in the selected procedure's steps
    out,        \* what the process has printed
    status,     \* exit status: -1 while running, 0 success, 1 unhandled exception
    invoked,    \* the procedures the process has called
    spawned,    \* the subprocesses the process has spawned: command and cwd
    fault,      \* outcome of the last operation: "none", "exit_status" (a
                \* subprocess returned non-zero), "io" (remove or open raised)
    todo,       \* the files of search_all_files(...) the for loop has yet to patch
    runs        \* the invocations so far

procVars == <<argv, pc, proc, ip, out, status, invoked, spawned, fault, todo, runs>>

VARIABLES
    gitignore,  \* the content of ROOT_DIR/.gitignore
    cargo,      \* the content of ROOT_DIR/Cargo.toml, the workspace manifest
    apps        \* ROOT_DIR/test_app and ROOT_DIR/user_app

fsVars == <<gitignore, cargo, apps>>

VARIABLES
    start,      \* history: the files as they were when the process started
    trace,      \* history: the steps the process has completed, in order
    ignore0,    \* history: the content of .gitignore in the initial state
    appended,   \* history: the directories whose step 1 completed, in order
    history     \* history: the exit statuses of the processes that have ended

histVars == <<start, trace, ignore0, appended, history>>

mainVars == <<procVars, fsVars, histVars>>

vars == <<textVars, walkVars, mainVars>>

\* ------------------------------------------------------- text substitution
\* every sequence over S of length at most n
SeqsUpTo(S, n) == UNION {[1..k -> S] : k \in 0..n}

\* sub occurs in s at (1-based) position i
OccursAt(s, sub, i) ==
    /\ i >= 1
    /\ i + Len(sub) - 1 <= Len(s)
    /\ SubSeq(s, i, i + Len(sub) - 1) = sub

\* the positions at which sub occurs in s (overlapping occurrences included)
Occurrences(s, sub) == {i \in 1..(Len(s) + 1) : OccursAt(s, sub, i)}

\* str.find: the leftmost position of sub in s, 0 when there is none
Find(s, sub) ==
    IF Occurrences(s, sub) = {} THEN 0
    ELSE CHOOSE i \in Occurrences(s, sub) :
            \A j \in Occurrences(s, sub) : i <= j

\* a plausible slip: the text after the match is cut by the length of after
ReplaceOnceWrongTail(content, before, after) ==
    LET i == Find(content, before) IN
    IF i = 0 THEN content
    ELSE SubSeq(content, 1, i - 1) \o after
            \o SubSeq(content, i + Len(after), Len(content))

\* a plausible slip: count omitted, every occurrence is replaced
RECURSIVE ReplaceAll(_, _, _)
ReplaceAll(content, before, after) ==
    LET i == Find(content, before) IN
    IF i = 0 \/ before = <<>> THEN content
    ELSE SubSeq(content, 1, i - 1) \o after
            \o ReplaceAll(SubSeq(content, i + Len(before), Len(content)),
                          before, after)

\* a plausible slip: the file is written even when nothing matched, but with
\* after appended
ReplaceOrAppend(content, before, after) ==
    LET i == Find(content, before) IN
    IF i = 0 THEN content \o after
    ELSE SubSeq(content, 1, i - 1) \o after
            \o SubSeq(content, i + Len(before), Len(content))

\* content.replace(before, after, 1)
ReplaceOnce(content, before, after) ==
    LET i == Find(content, before) IN
    IF i = 0 THEN content
    ELSE SubSeq(content, 1, i - 1) \o after
            \o SubSeq(content, i + Len(before), Len(content))

TextInit ==
    /\ tfile \in SeqsUpTo(Alphabet, MaxLen)
    /\ tbefore \in SeqsUpTo(Alphabet, MaxLit)
    /\ tafter \in SeqsUpTo(AfterAlphabet, MaxLit)
    /\ torig = tfile
    /\ tpc = "ready"

\* replace_text_once(file_path, before, after): read, replace, write back
replace_text_once ==
    /\ tpc = "ready"
    /\ tfile' = ReplaceOnce(tfile, tbefore, tafter)
    /\ tpc' = "done"
    /\ UNCHANGED <<tbefore, tafter, torig>>
    /\ UNCHANGED walkVars
    /\ UNCHANGED mainVars

\* --------------------------------------------------------- file enumeration
\* the entry names of the drawn trees; a path is the sequence of names from dir
Names == {"a", "b"}

\* the path of dir itself
TopDir == <<>>

\* the entries of directory d that are of kind k
Entries(d, k) ==
    {n \in Names : (d \o <<n>>) \in DOMAIN tree /\ tree[d \o <<n>>] = k}

\* the orders in which a scan may list the names of S
Orders(S) ==
    {o \in [1..Cardinality(S) -> S] : \A i, j \in DOMAIN o : o[i] = o[j] => i = j}

Reversed(s) == [i \in 1..Len(s) |-> s[Len(s) + 1 - i]]

\* a plausible slip: the file name alone is appended, without its directory
NameOnly(root_path, file) == <<file>>

\* root_path / file
JoinPath(root_path, file) == root_path \o <<file>>

WalkInit ==
    /\ tree = (TopDir :> "dir")
    /\ stack = <<>>
    /\ all_files = <<>>
    /\ wpc = "setup"

\* the tree search_all_files is given: one more file or subdirectory in it
CreateEntry ==
    /\ wpc = "setup"
    /\ Cardinality(DOMAIN tree) - 1 < MaxEntries
    /\ \E d \in DOMAIN tree, n \in Names, k \in {"dir", "file"} :
            /\ tree[d] = "dir"
            /\ (d \o <<n>>) \notin DOMAIN tree
            /\ tree' = tree @@ ((d \o <<n>>) :> k)
    /\ UNCHANGED <<stack, all_files, wpc>>
    /\ UNCHANGED textVars
    /\ UNCHANGED mainVars

\* search_all_files(dir) entered: all_files = [], walk(dir) starts at dir
search_all_files ==
    /\ wpc = "setup"
    /\ all_files' = <<>>
    /\ stack' = <<TopDir>>
    /\ wpc' = "walk"
    /\ UNCHANGED tree
    /\ UNCHANGED textVars
    /\ UNCHANGED mainVars

\* one iteration of "for root, _, files in walk(dir)": the next directory is
\* scanned, its files are appended, its subdirectories are left to be scanned
WalkDir ==
    /\ wpc = "walk"
    /\ stack # <<>>
    /\ LET root == stack[Len(stack)] IN
       \E files \in Orders(Entries(root, "file")),
          dirs \in Orders(Entries(root, "dir")) :
            /\ all_files' = all_files
                    \o [i \in 1..Len(files) |-> JoinPath(root, files[i])]
            /\ stack' = SubSeq(stack, 1, Len(stack) - 1)
                    \o Reversed([i \in 1..Len(dirs) |-> root \o <<dirs[i]>>])
    /\ UNCHANGED <<tree, wpc>>
    /\ UNCHANGED textVars
    /\ UNCHANGED mainVars

\* walk is exhausted: return all_files
WalkReturn ==
    /\ wpc = "walk"
    /\ stack = <<>>
    /\ wpc' = "done"
    /\ UNCHANGED <<tree, stack, all_files>>
    /\ UNCHANGED textVars
    /\ UNCHANGED mainVars

\* ------------------------------------------------- dispatcher and procedures
Apps == {"test_app", "user_app"}

\* the literals of the procedures, cut into fragments
IgnoreLine(app) == <<"\n", "/" \o app \o "/">>
ExampleGlob == <<"flutter_package/example/", "native/*">>
AppGlob(app) == <<app \o "/", "native/*">>
RinfDep == <<"rinf = { path = \"rust_crate\" }">>
TokioOff == <<"# ", "tokio_with_wasm">>
TokioOn == <<"tokio_with_wasm">>
BindgenOff == <<"# ", "wasm-bindgen">>
BindgenOn == <<"wasm-bindgen">>
AliasOff == <<"// ", "use tokio_with_wasm::alias as tokio;">>
AliasOn == <<"use tokio_with_wasm::alias as tokio;">>

\* what "rinf template" writes: the crate manifest with the web dependencies
\* commented out, and the crate sources, one with the commented-out import
HubTemplate == <<"[dependencies]">> \o TokioOff \o BindgenOff
SrcTemplate ==
    ("lib.rs" :> (AliasOff \o <<"async fn main()">>))
        @@ ("common.rs" :> <<"pub type Result">>)

NoApp == [exists |-> FALSE, dep |-> FALSE, manifest |-> FALSE,
          native |-> FALSE, hub |-> <<>>, src |-> <<>>]

\* the argument lists a process is started with
Program == "automate"
Argvs ==
    {<<Program>>}
        \cup {<<Program, c>> : c \in {"update-cargokit", "prepare-test-app",
                                       "prepare-user-app", "prepare-example-app",
                                       "bogus-command", "prepare_test_app", ""}}
        \cup {<<Program, "bogus-command", "prepare-test-app">>}

\* a plausible slip: underscores accepted for hyphens
MatchLoose(command) ==
    CASE command = "update-cargokit" -> "update_cargokit"
      [] command \in {"prepare-test-app", "prepare_test_app"} -> "prepare_test_app"
      [] command = "prepare-user-app" -> "prepare_user_app"
      [] command = "prepare-example-app" -> "prepare_example_app"
      [] OTHER -> "none"

\* match command: the procedure of each case, "none" for case _
Match(command) ==
    CASE command = "update-cargokit" -> "update_cargokit"
      [] command = "prepare-test-app" -> "prepare_test_app"
      [] command = "prepare-user-app" -> "prepare_user_app"
      [] command = "prepare-example-app" -> "prepare_example_app"
      [] OTHER -> "none"

\* the steps of prepare_test_app and of the head of prepare_user_app
PrepareSteps ==
    <<"ignore", "create", "pub_add", "template", "remove", "tokio", "bindgen",
      "search", "patch", "members">>

\* a plausible slip: the application is scaffolded before it is ignored
StepsCreateFirst(p) ==
    CASE p = "update_cargokit" -> <<"subtree_pull">>
      [] p = "prepare_test_app" ->
            <<"create", "ignore", "pub_add", "template", "remove", "tokio",
              "bindgen", "search", "patch", "members">>
      [] p = "prepare_user_app" ->
            <<"create", "ignore", "pub_add", "template", "remove", "tokio",
              "bindgen", "search", "patch", "members", "rinf_dep">>
      [] p = "prepare_example_app" -> <<"rinf_gen">>
      [] OTHER -> <<>>

\* the statements of each procedure, in program order
Steps(p) ==
    CASE p = "update_cargokit" -> <<"subtree_pull">>
      [] p = "prepare_test_app" -> PrepareSteps
      [] p = "prepare_user_app" -> PrepareSteps \o <<"rinf_dep">>
      [] p = "prepare_example_app" -> <<"rinf_gen">>
      [] OTHER -> <<>>

\* the directory the running procedure prepares
App == IF proc = "prepare_test_app" THEN "test_app" ELSE "user_app"

At(step) ==
    /\ pc = "running"
    /\ ip \in 1..Len(Steps(proc))
    /\ Steps(proc)[ip] = step

\* the statement returned: on to the next one, or out of run_command
Advance ==
    /\ trace' = Append(trace, Steps(proc)[ip])
    /\ ip' = ip + 1
    /\ IF ip = Len(Steps(proc))
         THEN pc' = "exit" /\ status' = 0
         ELSE UNCHANGED <<pc, status>>

\* an exception propagates out of run_command: the process ends
Raise ==
    /\ pc' = "exit"
    /\ status' = 1
    /\ UNCHANGED <<ip, trace>>

\* a plausible slip: check=True left out, a non-zero exit is ignored
NeverRaises(code) == FALSE

\* run(..., check=True): a non-zero exit status raises CalledProcessError
Raises(code) == code # 0

\* run_subprocess(command, cwd) returning with exit status code
RunSubprocess(command, cwd, code) ==
    /\ spawned' = Append(spawned, [command |-> command, cwd |-> cwd])
    /\ fault' = IF code = 0 THEN "none" ELSE "exit_status"
    /\ IF Raises(code) THEN Raise ELSE Advance

\* a file operation (open, remove) that succeeded
IoOk == fault' = "none" /\ Advance

\* a file operation that raised OSError
IoError == fault' = "io" /\ Raise

\* a plausible slip: the line is appended only when it is not there yet
AppendIfAbsent(content, app) ==
    IF Occurrences(content, IgnoreLine(app)) = {}
        THEN content \o IgnoreLine(app) ELSE content

\* content += "\n/test_app/" (or "\n/user_app/")
AppendLine(content, app) == content \o IgnoreLine(app)

MainInit ==
    /\ argv = <<>>
    /\ pc = "idle"
    /\ proc = "none"
    /\ ip = 0
    /\ out = <<>>
    /\ status = -1
    /\ invoked = <<>>
    /\ spawned = <<>>
    /\ fault = "none"
    /\ todo = <<>>
    /\ runs = 0
    /\ gitignore \in {<<"/target/">>, <<"/target/">> \o IgnoreLine("test_app")}
    /\ cargo = <<"members = [">> \o ExampleGlob \o <<"rust_crate", "]">> \o RinfDep
    /\ apps = [a \in Apps |-> NoApp]
    /\ start = <<gitignore, cargo, apps>>
    /\ trace = <<>>
    /\ ignore0 = gitignore
    /\ appended = <<>>
    /\ history = <<>>

\* the program is invoked: a new process, run_command() about to be called
Start ==
    /\ pc \in {"idle", "exit"}
    /\ runs < MaxRuns
    /\ runs' = runs + 1
    /\ argv' \in Argvs
    /\ pc' = "run_command"
    /\ proc' = "none"
    /\ ip' = 0
    /\ out' = <<>>
    /\ status' = -1
    /\ invoked' = <<>>
    /\ spawned' = <<>>
    /\ fault' = "none"
    /\ todo' = <<>>
    /\ start' = <<gitignore, cargo, apps>>
    /\ trace' = <<>>
    /\ history' = IF pc = "exit" THEN Append(history, status) ELSE history
    /\ UNCHANGED <<ignore0, appended>>
    /\ UNCHANGED fsVars
    /\ UNCHANGED <<textVars, walkVars>>

\* a plausible slip: the length test is off by one
ArgumentMissingOffByOne(args) == Len(args) < COMMAND_ARG

\* len(argv) < COMMAND_ARG + 1
ArgumentMissing(args) == Len(args) < COMMAND_ARG + 1

\* run_command(): the argument check and the match statement; argv[COMMAND_ARG]
\* on a list too short for it raises IndexError
run_command ==
    /\ pc = "run_command"
    /\ IF ArgumentMissing(argv)
         THEN /\ out' = Append(out, "Automation option is not provided")
              /\ pc' = "exit"
              /\ status' = 0
              /\ UNCHANGED <<proc, ip, invoked>>
         ELSE IF (COMMAND_ARG + 1) \notin DOMAIN argv
         THEN /\ pc' = "exit"
              /\ status' = 1
              /\ UNCHANGED <<proc, ip, invoked, out>>
         ELSE LET command == argv[COMMAND_ARG + 1] IN
              IF Match(command) = "none"
                THEN /\ out' = Append(out, "No such option for automation is available")
                     /\ pc' = "exit"
                     /\ status' = 0
                     /\ UNCHANGED <<proc, ip, invoked>>
                ELSE /\ proc' = Match(command)
                     /\ invoked' = Append(invoked, Match(command))
                     /\ ip' = 1
                     /\ pc' = "running"
                     /\ UNCHANGED <<out, status>>
    /\ UNCHANGED <<argv, spawned, fault, todo, runs>>
    /\ UNCHANGED fsVars
    /\ UNCHANGED histVars
    /\ UNCHANGED <<textVars, walkVars>>

\* update_cargokit(): the print, then git subtree pull in ROOT_DIR
update_cargokit ==
    /\ At("subtree_pull")
    /\ out' = Append(out, "Updating CargoKit...")
    /\ \E code \in {0, 1} :
        RunSubprocess("git subtree pull --prefix flutter_package/cargokit", "ROOT_DIR", code)
    /\ UNCHANGED <<argv, proc, invoked, todo, runs>>
    /\ UNCHANGED fsVars
    /\ UNCHANGED <<start, ignore0, appended, history>>
    /\ UNCHANGED <<textVars, walkVars>>

\* prepare_example_app(): rinf gen in flutter_package/example
prepare_example_app ==
    /\ At("rinf_gen")
    /\ \E code \in {0, 1} :
        RunSubprocess("rinf gen", "ROOT_DIR/flutter_package/example", code)
    /\ UNCHANGED <<argv, proc, out, invoked, todo, runs>>
    /\ UNCHANGED fsVars
    /\ UNCHANGED <<start, ignore0, appended, history>>
    /\ UNCHANGED <<textVars, walkVars>>

\* "Prevent side effects": .gitignore is read, the line appended, written back
AppendIgnore ==
    /\ At("ignore")
    /\ \/ /\ IoOk
          /\ gitignore' = AppendLine(gitignore, App)
          /\ appended' = Append(appended, App)
       \/ /\ IoError
          /\ UNCHANGED <<gitignore, appended>>
    /\ UNCHANGED <<argv, proc, out, invoked, spawned, todo, runs>>
    /\ UNCHANGED <<cargo, apps>>
    /\ UNCHANGED <<start, ignore0, history>>
    /\ UNCHANGED <<textVars, walkVars>>

\* flutter create test_app (user_app) in ROOT_DIR; a failed run may have made
\* the directory already
FlutterCreate ==
    /\ At("create")
    /\ \E code \in {0, 1} :
        /\ RunSubprocess("flutter create " \o App, "ROOT_DIR", code)
        /\ \E made \in IF code = 0 THEN {TRUE} ELSE {apps[App].exists, TRUE} :
            apps' = [apps EXCEPT ![App].exists = made]
    /\ UNCHANGED <<argv, proc, out, invoked, todo, runs>>
    /\ UNCHANGED <<gitignore, cargo>>
    /\ UNCHANGED <<start, ignore0, appended, history>>
    /\ UNCHANGED <<textVars, walkVars>>

\* dart pub add rinf --path=../flutter_package (flutter pub add rinf) in the app
PubAdd ==
    /\ At("pub_add")
    /\ \E code \in {0, 1} :
        /\ RunSubprocess(IF App = "test_app"
                            THEN "dart pub add rinf --path=../flutter_package"
                            ELSE "flutter pub add rinf",
                         "ROOT_DIR/" \o App, code)
        /\ apps' = [apps EXCEPT ![App].dep = (code = 0) \/ @]
    /\ UNCHANGED <<argv, proc, out, invoked, todo, runs>>
    /\ UNCHANGED <<gitignore, cargo>>
    /\ UNCHANGED <<start, ignore0, appended, history>>
    /\ UNCHANGED <<textVars, walkVars>>

\* rinf template in the app: the app's Cargo.toml and its native crate appear
RinfTemplate ==
    /\ At("template")
    /\ \E code \in {0, 1} :
        /\ RunSubprocess("rinf template", "ROOT_DIR/" \o App, code)
        /\ IF code = 0
             THEN apps' = [apps EXCEPT ![App].manifest = TRUE,
                                       ![App].native = TRUE,
                                       ![App].hub = HubTemplate,
                                       ![App].src = SrcTemplate]
             ELSE UNCHANGED apps
    /\ UNCHANGED <<argv, proc, out, invoked, todo, runs>>
    /\ UNCHANGED <<gitignore, cargo>>
    /\ UNCHANGED <<start, ignore0, appended, history>>
    /\ UNCHANGED <<textVars, walkVars>>

\* remove(ROOT_DIR / app / "Cargo.toml")
RemoveManifest ==
    /\ At("remove")
    /\ \/ /\ apps[App].manifest
          /\ IoOk
          /\ apps' = [apps EXCEPT ![App].manifest = FALSE]
       \/ /\ IoError
          /\ UNCHANGED apps
    /\ UNCHANGED <<argv, proc, out, invoked, spawned, todo, runs>>
    /\ UNCHANGED <<gitignore, cargo>>
    /\ UNCHANGED <<start, ignore0, appended, history>>
    /\ UNCHANGED <<textVars, walkVars>>

\* replace_text_once on native/hub/Cargo.toml of the app
PatchHub(before, after) ==
    /\ \/ /\ apps[App].native
          /\ IoOk
          /\ apps' = [apps EXCEPT ![App].hub = ReplaceOnce(@, before, after)]
       \/ /\ IoError
          /\ UNCHANGED apps
    /\ UNCHANGED <<argv, proc, out, invoked, spawned, todo, runs>>
    /\ UNCHANGED <<gitignore, cargo>>
    /\ UNCHANGED <<start, ignore0, appended, history>>
    /\ UNCHANGED <<textVars, walkVars>>

\* "Enable the web target": tokio_with_wasm uncommented
EnableTokio ==
    /\ At("tokio")
    /\ PatchHub(TokioOff, TokioOn)

\* "Enable the web target": wasm-bindgen uncommented
EnableBindgen ==
    /\ At("bindgen")
    /\ PatchHub(BindgenOff, BindgenOn)

\* search_all_files(crate_path / "src"): the files of the crate's sources, in
\* the order the traversal met them
SearchSrc ==
    /\ At("search")
    /\ todo' \in Orders(DOMAIN apps[App].src)
    /\ IoOk
    /\ UNCHANGED <<argv, proc, out, invoked, spawned, runs>>
    /\ UNCHANGED fsVars
    /\ UNCHANGED <<start, ignore0, appended, history>>
    /\ UNCHANGED <<textVars, walkVars>>

\* the for loop over the files: replace_text_once on the next one, or the end
PatchSrc ==
    /\ At("patch")
    /\ \/ /\ todo = <<>>
          /\ IoOk
          /\ UNCHANGED <<todo, apps>>
       \/ /\ todo # <<>>
          /\ fault' = "none"
          /\ todo' = Tail(todo)
          /\ apps' = [apps EXCEPT ![App].src[Head(todo)] =
                                        ReplaceOnce(@, AliasOff, AliasOn)]
          /\ UNCHANGED <<pc, ip, status, trace>>
       \/ /\ todo # <<>>
          /\ IoError
          /\ UNCHANGED <<todo, apps>>
    /\ UNCHANGED <<argv, proc, out, invoked, spawned, runs>>
    /\ UNCHANGED <<gitignore, cargo>>
    /\ UNCHANGED <<start, ignore0, appended, history>>
    /\ UNCHANGED <<textVars, walkVars>>

\* replace_text_once on ROOT_DIR/Cargo.toml
PatchCargo(before, after) ==
    /\ \/ /\ IoOk
          /\ cargo' = ReplaceOnce(cargo, before, after)
       \/ /\ IoError
          /\ UNCHANGED cargo
    /\ UNCHANGED <<argv, proc, out, invoked, spawned, todo, runs>>
    /\ UNCHANGED <<gitignore, apps>>
    /\ UNCHANGED <<start, ignore0, appended, history>>
    /\ UNCHANGED <<textVars, walkVars>>

\* "Update workspace members"
UpdateMembers ==
    /\ At("members")
    /\ PatchCargo(ExampleGlob, AppGlob(App))

\* prepare_user_app only: the dependency on rust_crate is taken out
RemoveRinfDep ==
    /\ At("rinf_dep")
    /\ PatchCargo(RinfDep, <<>>)

Next ==
    \/ Start
    \/ run_command
    \/ update_cargokit
    \/ prepare_example_app
    \/ AppendIgnore
    \/ FlutterCreate
    \/ PubAdd
    \/ RinfTemplate
    \/ RemoveManifest
    \/ EnableTokio
    \/ EnableBindgen
    \/ SearchSrc
    \/ PatchSrc
    \/ UpdateMembers
    \/ RemoveRinfDep

TextNext == replace_text_once

TextSpecInit == TextInit /\ WalkInit /\ MainInit

SpecText == TextSpecInit /\ [][TextNext]_vars

WalkNext == CreateEntry \/ search_all_files \/ WalkDir \/ WalkReturn

TextIdle ==
    /\ tfile = <<>>
    /\ tbefore = <<>>
    /\ tafter = <<>>
    /\ torig = <<>>
    /\ tpc = "done"

WalkSpecInit == WalkInit /\ TextIdle /\ MainInit

SpecWalk == WalkSpecInit /\ [][WalkNext]_vars

Init == MainInit /\ TextIdle /\ WalkInit

Spec == Init /\ [][Next]_vars

\* ---------------------------------------------------- claims on the text patcher
\* the characters of a text
Chars(s) == {s[i] : i \in DOMAIN s}

\* the only (or the leftmost) position of before in the content the call read
FirstAt == Find(torig, tbefore)

\* the text preceding the leftmost occurrence, then after, then the text following it
Spliced ==
    SubSeq(torig, 1, FirstAt - 1) \o tafter
        \o SubSeq(torig, FirstAt + Len(tbefore), Len(torig))

\* C3 as stated: a content with exactly one occurrence of before is left with
\* exactly one occurrence of after and none of before, whatever the literals are
\* (read here for literals that are not empty, as in the scenario).
C3_OneAfterNoBefore ==
    (/\ tpc = "done"
     /\ tbefore # <<>>
     /\ tafter # <<>>
     /\ Cardinality(Occurrences(torig, tbefore)) = 1)
        => /\ Cardinality(Occurrences(tfile, tafter)) = 1
           /\ Occurrences(tfile, tbefore) = {}

\* C3 amended: a content with exactly one occurrence of before is left with that
\* occurrence replaced by after (after stands where before stood, the text around
\* it is unchanged); the result has exactly one occurrence of after and none of
\* before when neither literal is empty and after shares no character with
\* before or with the content.
C3_OccurrenceReplaced ==
    (tpc = "done" /\ Cardinality(Occurrences(torig, tbefore)) = 1)
        => /\ tfile = Spliced
           /\ OccursAt(tfile, tafter, FirstAt)
           /\ (/\ tbefore # <<>>
               /\ tafter # <<>>
               /\ Chars(tafter) \cap (Chars(tbefore) \cup Chars(torig)) = {})
                 => /\ Cardinality(Occurrences(tfile, tafter)) = 1
                    /\ Occurrences(tfile, tbefore) = {}

\* C3 witness: a call that replaced the single occurrence of a two-character
\* before, in the middle of the content, by a literal foreign to the content
C3_Witness ==
    /\ tpc = "done"
    /\ Cardinality(Occurrences(torig, tbefore)) = 1
    /\ Len(tbefore) = 2
    /\ FirstAt > 1
    /\ tafter # <<>>
    /\ Chars(tafter) \cap (Chars(tbefore) \cup Chars(torig)) = {}
    /\ tfile # torig

C5_OnlyFirstReplaced ==
    (tpc = "done" /\ Cardinality(Occurrences(torig, tbefore)) >= 2)
        => /\ tfile = Spliced
           /\ \A j \in Occurrences(torig, tbefore) :
                j >= FirstAt + Len(tbefore)
                    => OccursAt(tfile, tbefore, j - Len(tbefore) + Len(tafter))

\* C5 witness: two occurrences of before that do not overlap, the first replaced
\* by a literal that does not contain before
C5_Witness ==
    /\ tpc = "done"
    /\ tbefore # <<>>
    /\ \E j \in Occurrences(torig, tbefore) : j >= FirstAt + Len(tbefore)
    /\ Occurrences(tafter, tbefore) = {}
    /\ tafter # <<>>
    /\ tfile # torig

\* ------------------------------------------------- claims on the file enumerator
\* the files of the tree
TreeFiles == {p \in DOMAIN tree : tree[p] = "file"}

\* C6: for a tree holding N files, in whatever subdirectories, search_all_files
\* returns exactly N paths, pairwise distinct, each the path of a file of the
\* tree and none the path of a directory.
C6_ExactlyTheFiles ==
    wpc = "done"
        => /\ Len(all_files) = Cardinality(TreeFiles)
           /\ \A i, j \in DOMAIN all_files : all_files[i] = all_files[j] => i = j
           /\ \A i \in DOMAIN all_files :
                /\ all_files[i] \in DOMAIN tree
                /\ tree[all_files[i]] = "file"

\* C6 witness: a returned list for a tree with a file at the top, a file of the
\* same name two levels down, and an empty subdirectory
C6_Witness ==
    /\ wpc = "done"
    /\ \E n, m \in Names :
        /\ <<n>> \in TreeFiles
        /\ <<m, n>> \in TreeFiles
        /\ \E e \in Names :
            /\ <<m, e>> \in DOMAIN tree
            /\ tree[<<m, e>>] = "dir"
            /\ Entries(<<m, e>>, "file") \cup Entries(<<m, e>>, "dir") = {}
    /\ Len(all_files) = 2

\* ---------------------------------------------------- claims on the dispatcher
\* the files as they are now, in the shape of start
Files == <<gitignore, cargo, apps>>

\* the process was given a command, and it is none of the four
UnknownCommand ==
    /\ Len(argv) >= 2
    /\ argv[2] \notin {"update-cargokit", "prepare-test-app", "prepare-user-app",
                       "prepare-example-app"}

\* C1: for every command that is none of the four, run_command prints "No such
\* option for automation is available", calls none of the procedures, spawns no
\* subprocess, changes no file, and the process exits with success.
C1_UnknownCommandNoOp ==
    UnknownCommand
        => /\ pc \in {"run_command", "exit"}
           /\ invoked = <<>>
           /\ spawned = <<>>
           /\ Files = start
           /\ pc = "exit"
                => /\ out = <<"No such option for automation is available">>
                   /\ status = 0

\* C1 witness: a second invocation, with an underscore spelling of a command,
\* has exited, on files an earlier invocation had changed
C1_Witness ==
    /\ pc = "exit"
    /\ argv = <<Program, "prepare_test_app">>
    /\ runs = 2
    /\ apps["test_app"].exists
    /\ gitignore # ignore0

\* C2 as stated: with no command argument the process behaves as for an unknown
\* command, the diagnostic printed included.
C2_SameAsUnknown ==
    (pc = "exit" /\ Len(argv) < 2)
        => /\ out = <<"No such option for automation is available">>
           /\ invoked = <<>>
           /\ spawned = <<>>
           /\ Files = start
           /\ status = 0

\* C2 amended: with no command argument the process behaves as for an unknown
\* command (no procedure called, no subprocess, no file changed, exit with
\* success) except for the diagnostic, which is "Automation option is not
\* provided".
C2_MissingArgumentNoOp ==
    (pc \in {"run_command", "exit"} /\ Len(argv) < 2)
        => /\ invoked = <<>>
           /\ spawned = <<>>
           /\ Files = start
           /\ pc = "exit"
                => /\ out = <<"Automation option is not provided">>
                   /\ status = 0

\* C2 witness: an invocation without arguments has exited, after an earlier
\* invocation that changed files
C2_Witness ==
    /\ pc = "exit"
    /\ argv = <<Program>>
    /\ runs = 2
    /\ gitignore # ignore0

\* ---------------------------------------------------- claims on the procedures
Preparing == proc \in {"prepare_test_app", "prepare_user_app"}

\* the steps of section 4.3, in the order of the text
Listed ==
    <<"ignore", "create", "pub_add", "template", "remove", "tokio", "bindgen",
      "search", "patch", "members">>
        \o (IF proc = "prepare_user_app" THEN <<"rinf_dep">> ELSE <<>>)

Completed(step) == \E i \in DOMAIN trace : trace[i] = step

OtherApp == IF App = "test_app" THEN "user_app" ELSE "test_app"

\* C7: the steps of prepare-test-app and prepare-user-app run in program order,
\* and the first failing step (a subprocess exiting non-zero, an I/O error of
\* remove or open) ends the run: what steps 1..N-1 did is still on the
\* filesystem, and no later step has run or changed anything.
C7_FirstFailureEnds ==
    /\ fault # "none" => (pc = "exit" /\ status = 1)
    /\ Preparing
        => /\ Len(trace) <= Len(Listed)
           /\ trace = SubSeq(Listed, 1, Len(trace))
    /\ (Preparing /\ pc = "exit" /\ status = 1)
        => /\ Len(trace) = ip - 1
           /\ gitignore = IF Completed("ignore")
                            THEN start[1] \o IgnoreLine(App) ELSE start[1]
           /\ Completed("create") => apps[App].exists
           /\ Completed("pub_add") => apps[App].dep
           /\ Completed("template")
                => /\ apps[App].native
                   /\ apps[App].manifest = ~Completed("remove")
                   /\ ~Completed("tokio") => apps[App].hub = HubTemplate
                   /\ ~Completed("search") => apps[App].src = SrcTemplate
           /\ ~Completed("template")
                => /\ apps[App].manifest = start[3][App].manifest
                   /\ apps[App].hub = start[3][App].hub
                   /\ apps[App].src = start[3][App].src
           /\ Completed("tokio") => Occurrences(apps[App].hub, TokioOff) = {}
           /\ Completed("bindgen")
                => apps[App].hub = <<"[dependencies]">> \o TokioOn \o BindgenOn
           /\ Completed("patch")
                => \A f \in DOMAIN apps[App].src :
                        Occurrences(apps[App].src[f], AliasOff) = {}
           /\ cargo = IF Completed("members")
                        THEN ReplaceOnce(start[2], ExampleGlob, AppGlob(App))
                        ELSE start[2]
           /\ apps[OtherApp] = start[3][OtherApp]

\* C7 witness: prepare-user-app failed in its last step, after ten steps that
\* completed
C7_Witness ==
    /\ proc = "prepare_user_app"
    /\ pc = "exit"
    /\ status = 1
    /\ fault = "io"
    /\ ip = 11
    /\ Len(trace) = 10
    /\ cargo # start[2]

RECURSIVE LinesOf(_)
\* the ignore lines of the given directories, one after the other
LinesOf(dirs) ==
    IF dirs = <<>> THEN <<>> ELSE IgnoreLine(Head(dirs)) \o LinesOf(Tail(dirs))

\* C8: the append to .gitignore is unconditional: every run whose step 1
\* completes appends one copy of its line to the end, the previous content
\* staying as a prefix, so after k such runs the file is the original content
\* followed by the k lines, whether or not a line was already there.
C8_AppendEveryRun ==
    /\ gitignore = ignore0 \o LinesOf(appended)
    /\ (Preparing /\ Completed("ignore"))
            => gitignore = start[1] \o IgnoreLine(App)

\* C8 witness: two runs of prepare-test-app on a .gitignore that had the line
\* already: it is there three times
C8_Witness ==
    /\ appended = <<"test_app", "test_app">>
    /\ Occurrences(ignore0, IgnoreLine("test_app")) # {}
    /\ Cardinality(Occurrences(gitignore, IgnoreLine("test_app"))) = 3

\* C9: whenever prepare-test-app (prepare-user-app) completes successfully, the
\* workspace manifest has the member glob of the new application in place of
\* flutter_package/example/native/*, whatever procedures ran successfully before
\* (no earlier run failed).
C9_MemberGlobOfTheApp ==
    (/\ Preparing
     /\ pc = "exit"
     /\ status = 0
     /\ \A i \in DOMAIN history : history[i] = 0)
        => /\ Occurrences(cargo, AppGlob(App)) # {}
           /\ Occurrences(cargo, ExampleGlob) = {}

\* C10: the ignore line is written before any subprocess is spawned: in every
\* state, also of an aborted run, an application directory that exists (or
\* anything a later step did) comes with its line in .gitignore.
C10_IgnoredBeforeCreated ==
    /\ \A a \in Apps :
        (\/ apps[a].exists
         \/ apps[a].dep
         \/ apps[a].manifest
         \/ apps[a].native
         \/ Occurrences(cargo, AppGlob(a)) # {})
            => Occurrences(gitignore, IgnoreLine(a)) # {}
    /\ (Preparing /\ spawned # <<>>)
            => Occurrences(gitignore, IgnoreLine(App)) # {}

\* C10 witness: a run aborted by the scaffolding command, which had made the
\* directory before it failed
C10_Witness ==
    /\ proc = "prepare_user_app"
    /\ pc = "exit"
    /\ status = 1
    /\ fault = "exit_status"
    /\ ip = 2
    /\ apps["user_app"].exists
    /\ ~apps["user_app"].native

====
